---------------------------- MODULE Spec2Model ----------------------------
(***************************************************************************)
(* A model of the social-media client (chat screen, auth session holder,   *)
(* likes / follows / notifications) together with the relational schema    *)
(* it talks to (src/schema.sql: tables, constraints, triggers, row-level   *)
(* security policies).                                                     *)
(*                                                                         *)
(* The specifications of the module:                                       *)
(*   ChatSpec    the chat screen (src/app/chat/[id].tsx, both versions)    *)
(*   ScreenSpec  the chat screen with one user's message list followed     *)
(*   MsgSpec     the chat screen's sends and its message fix button        *)
(*   AuthSpec    the AuthProvider (src/contexts/AuthContext.tsx)           *)
(*   LikeSpec    likes and comments from the home and comments screens     *)
(*   FollowSpec  follow edges from the home, search and request screens    *)
(*   FeedSpec    the home feed with the follow handlers                    *)
(*   DbSpec      the inserts and updates on likes, comments and followers  *)
(*               that fire the notification trigger of schema.sql          *)
(*   ProfileSpec username saves of the edit-profile and sign-up screens    *)
(*   NotifSpec   the Home screens' badge callback and the Notifications    *)
(*               screen (src/app/notifications.tsx)                        *)
(*   PostSpec    the profile screen's post handlers (src/app/profile.tsx)  *)
(*   ViewSpec    the chat screen opened on conversations of other users    *)
(*   SocialSpec  LikeSpec and FollowSpec together                          *)
(*   HomeSpec    the home screen's posts list under handleLike             *)
(* The chat, auth and like handlers are cut at their awaits: one action    *)
(* per stretch of code that runs without yielding to the event loop.       *)
(***************************************************************************)
EXTENDS Integers, Sequences, FiniteSets, Bags, TLC

(***************************************************************************)
(* Bounds of the model.                                                    *)
(***************************************************************************)
MaxMsgs == 2
MaxSends == 1
MaxFaults == 2

(***************************************************************************)
(* Identifiers.  Profile ids and conversation ids are both UUID columns    *)
(* (schema.sql:6, :63), so both match the chat screen's isUUID test; the   *)
(* one route parameter that does not is kept to exercise the other branch. *)
(***************************************************************************)
Users == {"u1", "u2"}

ConvNames == <<"c1", "c2", "c3", "c4">>

ConvIds == {ConvNames[i] : i \in 1..Len(ConvNames)}

NonUuidRoute == "not-a-uuid"

NoRoute == "none"

NoConv == "none"

\* a profile whose own screens are not followed
Stranger == "u3"

\* what each user types into the message box
Typed == [u \in Users |-> IF u = "u1" THEN "a" ELSE "b"]

Other(u) == CHOOSE v \in Users : v # u

\* the user signed in on the one device whose screens are followed singly
Viewer == "u1"

\* isUUID: the regular expression accepts exactly the UUID-shaped strings.
IsUUID(str) == str \in (Users \cup ConvIds)

VARIABLES
  variant,        \* which version of the chat screen is built (1: first, 2: second)
  extraCols,      \* whether the tables carry the columns the client sends beyond schema.sql
  watched,        \* the users whose chat screen's local state is followed
  faults,         \* how many more requests the backend may fail for reasons of its own
  conversations,  \* table conversations
  messages,       \* table messages, in insertion order (the index is the id)
  route,          \* per user: the chat screen's route parameter id, or NoRoute
  list,           \* per user: the chat screen's messages state (message ids)
  subs,           \* per user: realtime channels created by the chat screen
  rt,             \* per user: INSERT payloads handed to a channel callback, not yet applied
  fetches,        \* per user: fetchMessages results not yet applied by setMessages
  send,           \* per user, per slot: a handleSend invocation
  sending         \* per user: the chat screen's sending state

VARIABLES
  profiles,       \* table profiles: a bag of rows, were the key not to hold
  libSession,     \* the session the auth library holds (NoSession: signed out)
  issued,         \* how many sessions the auth library has issued
  session,        \* AuthProvider's session state
  loading,        \* AuthProvider's loading state
  getSess,        \* initializeAuth: where it stands and what getSession returned
  events,         \* auth state changes not yet handed to the onAuthStateChange listener
  ensures         \* ensureUserProfileExists invocations in flight

VARIABLES
  comments,       \* table comments
  likes,          \* table likes
  followers,      \* table followers
  notifications,  \* table notifications, in insertion order
  liked,          \* per user: is_liked of the post as the home screen holds it
  cliked,         \* per user: the comments with is_liked set on the comments screen
  following,      \* per user: is_following of the other user in the search results
  likeOps         \* bag of handleLike invocations between their tap and their request

VARIABLES
  usernames,      \* table profiles, column username, per profile id (NULL: no row)
  saves           \* per account: the edit-profile or sign-up screen's handler

VARIABLES
  feed            \* per user: the posts of the home screen's posts state

VARIABLES
  homes,          \* one device: the Home screen instances that are mounted
  badgeSlot,      \* global.updateNotificationBadges: 0 when undefined, else the
                  \*   Home instance whose callback it holds
  nopen,          \* whether the Notifications screen is mounted
  nlist,          \* the Notifications screen's notifications state
  nfetch,         \* fetchNotifications invocations in flight
  nmark,          \* markAllAsRead invocations in flight
  forced          \* whether an update sent by updateNotificationBadges(0) is in flight

VARIABLES
  homePosts,      \* one device: the home screen's posts state, per post its
                  \*   is_liked and likes_count
  homeLikes,      \* that screen's handleLike invocations in flight, each with
                  \*   the posts it closed over
  likeAlert       \* whether that screen shows the 'Failed to update like' alert

VARIABLES
  postRows,       \* table posts
  shownPosts,     \* per user: the ids in the profile screen's posts state
  editingPost,    \* per user: the profile screen's editingPost (NULL: none)
  postAlert       \* per user: the Alert the profile screen showed last

\* what is fixed when the application is built and deployed
config == <<variant, extraCols, watched>>

chatVars == <<faults, conversations, messages, route, list, subs, rt,
              fetches, send, sending>>

authVars == <<profiles, libSession, issued, session, loading, getSess, events, ensures>>

socialVars == <<comments, likes, followers, notifications, liked, cliked, following,
                likeOps>>

profileVars == <<usernames, saves>>

\* the state of the screens and tables beyond chat, auth, likes and follows
feedVars == <<feed>>

notifVars == <<homes, badgeSlot, nopen, nlist, nfetch, nmark, forced>>

postVars == <<postRows, shownPosts, editingPost, postAlert>>

homeVars == <<homePosts, homeLikes, likeAlert>>

appVars == <<profileVars, feedVars, notifVars, postVars, homeVars>>

vars == <<config, chatVars, authVars, socialVars, appVars>>


(***************************************************************************)
(* The database: tables conversations and messages with their constraints, *)
(* row-level security policies and trigger (src/schema.sql).               *)
(***************************************************************************)

IsParticipantDropped(uid, c) == TRUE

\* c.participant1_id = auth.uid() OR c.participant2_id = auth.uid(), the test of
\* the policies on conversations and messages
IsParticipant(uid, c) == uid = c.p1 \/ uid = c.p2

\* "Conversations are viewable by participants"
ConversationsSelectPolicy(uid, c) == IsParticipant(uid, c)

\* "Authenticated users can create conversations"
ConversationsInsertPolicy(uid) == uid \in Users

\* Row-level security is enabled on conversations and the schema defines no
\* UPDATE policy for it: an UPDATE sees no row and reports no error.
ConversationsUpdatePolicy(uid, c) == FALSE

\* UNIQUE(participant1_id, participant2_id): the ordered pair.
ConversationsUnique(convs, p1, p2) == ~\E c \in convs : c.p1 = p1 /\ c.p2 = p2

\* id UUID DEFAULT uuid_generate_v4(): an id no row has used.
NewConvId(convs) == ConvNames[Cardinality(convs) + 1]

\* "Messages can be inserted by conversation participants"
MessagesInsertPolicy(convs, uid, cid) ==
  \E c \in convs : c.id = cid /\ IsParticipant(uid, c)

\* "Messages are viewable by conversation participants"
MessagesSelectPolicy(convs, uid, cid) ==
  \E c \in convs : c.id = cid /\ IsParticipant(uid, c)

\* UPDATE conversations SET last_message = text WHERE id = cid, run as uid.
UpdateLastMessage(convs, uid, cid, text) ==
  {IF c.id = cid /\ ConversationsUpdatePolicy(uid, c)
     THEN [c EXCEPT !.last = text] ELSE c : c \in convs}

\* Trigger update_conversation_last_message AFTER INSERT ON messages; the
\* function is not SECURITY DEFINER, so it runs as the inserting user.
LastMessageTrigger(convs, new) == UpdateLastMessage(convs, new.sender, new.conv, new.content)

\* "Users can update own messages"
MessagesUpdatePolicy(uid, m) == m.sender = uid

\* Trigger update_messages_updated_at BEFORE UPDATE ON messages: updated_at,
\* equal to created_at when the row is inserted, becomes the time of the update
\* (updated: whether updated_at is later than created_at)
UpdatedAtTrigger(m) == [m EXCEPT !.updated = TRUE]

\* UPDATE messages SET received = true WHERE conversation_id = cid, as uid
MarkReceived(msgs, uid, cid) ==
  [i \in 1..Len(msgs) |->
     IF msgs[i].conv = cid /\ MessagesUpdatePolicy(uid, msgs[i])
       THEN UpdatedAtTrigger([msgs[i] EXCEPT !.received = TRUE]) ELSE msgs[i]]

\* SELECT ... FROM conversations WHERE id = cid, as uid.
VisibleConv(convs, uid, cid) ==
  {c \in convs : c.id = cid /\ ConversationsSelectPolicy(uid, c)}

\* The .or(and(p1 = uid, p2 = other), and(p1 = other, p2 = uid)) query, as uid.
PairConvs(convs, uid, other) ==
  {c \in convs : /\ ConversationsSelectPolicy(uid, c)
                 /\ \/ (c.p1 = uid /\ c.p2 = other)
                    \/ (c.p1 = other /\ c.p2 = uid)}

\* SELECT id FROM messages WHERE conversation_id = cid ORDER BY created_at, as uid.
ConvMessages(convs, msgs, uid, cid) ==
  SelectSeq([i \in 1..Len(msgs) |-> i],
            LAMBDA i : msgs[i].conv = cid /\ MessagesSelectPolicy(convs, uid, cid))

(***************************************************************************)
(* The chat screen: fetchMessages, the [id] effect and its subscription.   *)
(***************************************************************************)

\* Whether fetchMessages (closure id = rid) reaches a setMessages call.  The
\* second version throws on a conversation it cannot read and only alerts.
FetchSets(convs, uid, rid) ==
  \/ ~IsUUID(rid)
  \/ variant = 1
  \/ VisibleConv(convs, uid, rid) # {}

\* The value fetchMessages passes to setMessages.  A route id that is not UUID
\* shaped cannot be stored in the UUID columns, so the first version's
\* automatic conversation creation on that branch fails and changes nothing.
FetchValue(convs, msgs, uid, rid) ==
  IF IsUUID(rid) /\ VisibleConv(convs, uid, rid) # {}
    THEN ConvMessages(convs, msgs, uid, rid)
    ELSE <<>>

\* How fetchMessages (closure id = rid) ends: with the conversation's rows
\* ("list"), with the empty state ("empty"), with the alert 'You are not
\* authorized to view this conversation' ("unauthorized") or with another
\* error ("failed").  .single() on a conversation the policy hides is the
\* error PGRST116: the first version shows the empty state, the second throws it.
FetchOutcome(convs, uid, rid) ==
  IF ~IsUUID(rid) THEN "empty"
  ELSE IF VisibleConv(convs, uid, rid) = {}
    THEN IF variant = 1 THEN "empty" ELSE "failed"
  ELSE IF \A c \in VisibleConv(convs, uid, rid) : uid # c.p1 /\ uid # c.p2
    THEN "unauthorized"
  ELSE "list"

\* a fetchMessages call whose queries have run: what it will pass to
\* setMessages (sets) and how it ends
AddFetch(F, convs, msgs, uid, rid) ==
  IF uid \in watched
    THEN F \cup {[sets |-> /\ FetchSets(convs, uid, rid)
                           /\ FetchOutcome(convs, uid, rid) # "unauthorized",
                  value |-> FetchValue(convs, msgs, uid, rid),
                  out |-> FetchOutcome(convs, uid, rid)]}
    ELSE F

\* subscribeToMessages: a channel filtered on conversation_id = rid.  The first
\* version's callback reads messages, the state of the render that created it;
\* the second version's callback reads no state.
Subscribe(u, rid, lst) ==
  IF u \in watched /\ IsUUID(rid)
    THEN {[conv |-> rid, closure |-> IF variant = 1 THEN lst ELSE <<>>, live |-> TRUE]}
    ELSE {}

\* The effect's cleanup when the id changes: the first version returns the
\* unsubscribe function, the second returns nothing.
CleanupOnChange(S) == IF variant = 1 THEN {s \in S : ~s.live} ELSE S

\* The cleanup on unmount; channels the second version leaves behind belong
\* to an unmounted component (their setMessages calls do nothing).
CleanupOnUnmount(S) ==
  IF variant = 1 THEN {s \in S : ~s.live}
                 ELSE {[s EXCEPT !.live = FALSE] : s \in S}

\* router.replace(`/chat/${rid}`) / router.push: the screen is mounted when
\* absent; otherwise its id parameter changes and the [id] effect re-runs.
NavRoute(u, rid) == [route EXCEPT ![u] = rid]

NavList(u, rid) == IF route[u] = NoRoute THEN [list EXCEPT ![u] = <<>>] ELSE list

NavSubs(u, rid) ==
  IF route[u] = NoRoute THEN [subs EXCEPT ![u] = @ \cup Subscribe(u, rid, <<>>)]
  ELSE IF route[u] = rid THEN subs
  ELSE [subs EXCEPT ![u] = CleanupOnChange(@) \cup Subscribe(u, rid, list[u])]

NavFetches(convs, msgs, u, rid) ==
  IF route[u] = rid THEN fetches[u]
  ELSE AddFetch(fetches[u], convs, msgs, u, rid)

\* delivery of an INSERT on messages to every live channel whose filter matches
Deliveries(convs, S, v, cid, mid) ==
  {[msg |-> mid, closure |-> s.closure] :
     s \in {x \in S : x.live /\ x.conv = cid /\ MessagesSelectPolicy(convs, v, cid)}}


(***************************************************************************)
(* handleSend invocations.                                                 *)
(***************************************************************************)
Slots == 1..MaxSends

IdleTask == [pc |-> "idle", rid |-> NoRoute, text |-> "", conv |-> NoConv,
             existing |-> FALSE, retries |-> 0, out |-> "none", alive |-> FALSE]

\* a finished invocation: the route id it was started with and how it ended
Finished(t, how) == [IdleTask EXCEPT !.rid = t.rid, !.out = how]

ActiveSends == {p \in Users \X Slots : send[p[1]][p[2]].pc # "idle"}

\* setSending(v) of an invocation: a state update of an unmounted component is dropped
SetSending(u, t, v) == IF t.alive THEN [sending EXCEPT ![u] = v] ELSE sending

ChatEmpty ==
  /\ conversations = {}
  /\ messages = <<>>
  /\ route = [u \in Users |-> NoRoute]
  /\ list = [u \in Users |-> <<>>]
  /\ subs = [u \in Users |-> {}]
  /\ rt = [u \in Users |-> {}]
  /\ fetches = [u \in Users |-> {}]
  /\ send = [u \in Users |-> [k \in Slots |-> IdleTask]]
  /\ sending = [u \in Users |-> FALSE]

\* handleConversationPress: a search result opens the chat with the user's id,
\* a listed conversation with the conversation's id.
OpenChat(u, rid) ==
  /\ route[u] = NoRoute
  /\ rid \in {Other(u), NonUuidRoute} \cup
             {c.id : c \in {x \in conversations : ConversationsSelectPolicy(u, x)}}
  /\ route' = NavRoute(u, rid)
  /\ list' = NavList(u, rid)
  /\ subs' = NavSubs(u, rid)
  /\ fetches' = [fetches EXCEPT ![u] = NavFetches(conversations, messages, u, rid)]
  /\ UNCHANGED <<config, appVars, authVars, socialVars, faults, conversations, messages, rt, send, sending>>

\* leaving the screen: the component unmounts, its state and pending state
\* updates are gone; handleSend invocations already started run on.
CloseChat(u) ==
  /\ route[u] # NoRoute
  /\ route' = [route EXCEPT ![u] = NoRoute]
  /\ list' = [list EXCEPT ![u] = <<>>]
  /\ subs' = [subs EXCEPT ![u] = CleanupOnUnmount(@)]
  /\ rt' = [rt EXCEPT ![u] = {}]
  /\ fetches' = [fetches EXCEPT ![u] = {}]
  /\ sending' = [sending EXCEPT ![u] = FALSE]
  /\ send' = [send EXCEPT ![u] = [k \in Slots |-> [@[k] EXCEPT !.alive = FALSE]]]
  /\ UNCHANGED <<config, appVars, authVars, socialVars, faults, conversations, messages>>

\* handleRefresh: fetchMessages of the current render
HandleRefresh(u) ==
  /\ route[u] # NoRoute
  /\ fetches' = [fetches EXCEPT ![u] = AddFetch(@, conversations, messages, u, route[u])]
  /\ UNCHANGED <<config, appVars, authVars, socialVars, faults, conversations, messages, route, list, subs, rt,
                 send, sending>>

\* fetchMessages completes: setMessages(processedMessages) replaces the list,
\* or the call ends in its catch block
FetchApply(u, v) ==
  /\ v \in fetches[u]
  /\ list' = [list EXCEPT ![u] = IF v.sets THEN v.value ELSE @]
  /\ fetches' = [fetches EXCEPT ![u] = @ \ {v}]
  /\ UNCHANGED <<config, appVars, authVars, socialVars, faults, conversations, messages, route, subs, rt,
                 send, sending>>

\* the channel callback: the first version skips a message found in the
\* messages it closed over, then setMessages(prev => [...prev, new])
RealtimeAppend(u, d) ==
  IF variant = 1 /\ \E i \in 1..Len(d.closure) : d.closure[i] = d.msg
    THEN list[u]
    ELSE Append(list[u], d.msg)

RealtimeDeliver(u, d) ==
  /\ d \in rt[u]
  /\ list' = [list EXCEPT ![u] = RealtimeAppend(u, d)]
  /\ rt' = [rt EXCEPT ![u] = @ \ {d}]
  /\ UNCHANGED <<config, appVars, authVars, socialVars, faults, conversations, messages, route, subs, fetches,
                 send, sending>>

\* the send button (disabled while sending or with nothing typed)
HandleSendTap(u, k) ==
  /\ route[u] # NoRoute
  /\ ~sending[u]
  /\ send[u][k].pc = "idle"
  /\ Len(messages) + Cardinality(ActiveSends) < MaxMsgs
  /\ send' = [send EXCEPT ![u][k] = [IdleTask EXCEPT !.pc = "check", !.rid = route[u],
                                                     !.text = Typed[u], !.alive = TRUE]]
  /\ sending' = [sending EXCEPT ![u] = TRUE]
  /\ UNCHANGED <<config, appVars, authVars, socialVars, faults, conversations, messages, route, list, subs, rt,
                 fetches>>

\* handleSend up to the decision which conversation to use: the lookup of the
\* route id as a conversation, as a profile, and the search for a conversation
\* between the two users.
SendCheck(u, k) ==
  LET t == send[u][k]
      byId == VisibleConv(conversations, u, t.rid)
      pair == PairConvs(conversations, u, t.rid)
      found == CHOOSE c \in pair : TRUE
  IN
  /\ t.pc = "check"
  /\ IF byId # {}
       THEN /\ send' = [send EXCEPT ![u][k] = [t EXCEPT !.pc = "insert", !.conv = t.rid,
                                                        !.existing = TRUE]]
            /\ UNCHANGED <<route, list, subs, fetches, sending>>
     ELSE IF \A r \in BagToSet(profiles) : r.id # t.rid
       THEN \* 'User not found' / 'Invalid user ID': the alert, then finally
            /\ send' = [send EXCEPT ![u][k] = Finished(t, "alert")]
            /\ sending' = SetSending(u, t, FALSE)
            /\ UNCHANGED <<route, list, subs, fetches>>
     ELSE IF Cardinality(pair) = 1
       THEN \* maybeSingle() returned the one row: use it, router.replace
            /\ send' = [send EXCEPT ![u][k] = [t EXCEPT !.pc = "insert", !.conv = found.id]]
            /\ route' = NavRoute(u, found.id)
            /\ list' = NavList(u, found.id)
            /\ subs' = NavSubs(u, found.id)
            /\ fetches' = [fetches EXCEPT
                             ![u] = NavFetches(conversations, messages, u, found.id)]
            /\ UNCHANGED sending
       ELSE \* no row, or maybeSingle()'s error on several rows: create one
            /\ send' = [send EXCEPT ![u][k] = [t EXCEPT !.pc = "create"]]
            /\ UNCHANGED <<route, list, subs, fetches, sending>>
  /\ UNCHANGED <<config, appVars, authVars, socialVars, faults, conversations, messages, rt>>

\* the insert into conversations (and, in the second version, the verification
\* and router.replace that follow it)
SendCreate(u, k) ==
  LET t == send[u][k]
      cid == NewConvId(conversations)
      row == [id |-> cid, p1 |-> u, p2 |-> t.rid, last |-> t.text]
  IN
  /\ t.pc = "create"
  /\ IF ConversationsInsertPolicy(u) /\ ConversationsUnique(conversations, u, t.rid)
       THEN /\ conversations' = conversations \cup {row}
            /\ send' = [send EXCEPT ![u][k] = [t EXCEPT !.pc = "insert", !.conv = cid]]
            /\ UNCHANGED sending
            /\ IF variant = 2
                 THEN /\ route' = NavRoute(u, cid)
                      /\ list' = NavList(u, cid)
                      /\ subs' = NavSubs(u, cid)
                      /\ fetches' = [fetches EXCEPT
                                       ![u] = NavFetches(conversations', messages, u, cid)]
                 ELSE UNCHANGED <<route, list, subs, fetches>>
       ELSE \* 'Failed to create conversation: duplicate key ...': the alert
            /\ send' = [send EXCEPT ![u][k] = Finished(t, "alert")]
            /\ sending' = SetSending(u, t, FALSE)
            /\ UNCHANGED <<conversations, route, list, subs, fetches>>
  /\ UNCHANGED <<config, appVars, authVars, socialVars, faults, messages, rt>>

\* what the backend answers to the insert into messages: e is "ok", or a
\* failure of its own whose text matches the handler's PGRST116 test
\* ("pgrst116"), or one whose text does not ("other")
InsertAccepted(u, t, e) ==
  /\ e = "ok"
  /\ MessagesInsertPolicy(conversations, u, t.conv)

\* the second version sends received: true, a column schema.sql does not define
UnknownColumn == variant = 2 /\ ~extraCols

\* the value of received in the row handleSend inserts: true in the second
\* version; the first names no such column
ReceivedOnSend == variant = 2

\* the catch block: the first version re-invokes handleSend from a timer on a
\* PGRST116-looking error, with no count of the attempts
RetriesOn(e) == variant = 1 /\ e = "pgrst116"

SendInsert(u, k, e) ==
  LET t == send[u][k]
      mid == Len(messages) + 1
      new == [conv |-> t.conv, sender |-> u, content |-> t.text,
              received |-> ReceivedOnSend, updated |-> FALSE]
  IN
  /\ t.pc = "insert"
  /\ faults' = IF e = "ok" THEN faults ELSE faults - 1
  /\ e # "ok" => faults > 0
  /\ IF InsertAccepted(u, t, e) /\ ~UnknownColumn
       THEN /\ messages' = Append(messages, new)
            /\ conversations' = LastMessageTrigger(conversations, new)
            /\ rt' = [v \in Users |->
                        rt[v] \cup Deliveries(conversations, subs[v], v, t.conv, mid)]
            /\ send' = [send EXCEPT ![u][k] = [t EXCEPT !.pc = "update"]]
            /\ UNCHANGED sending
     ELSE IF RetriesOn(e)
       THEN /\ send' = [send EXCEPT ![u][k] = [t EXCEPT !.pc = "retryWait"]]
            /\ sending' = SetSending(u, t, FALSE)
            /\ UNCHANGED <<messages, conversations, rt>>
       ELSE /\ send' = [send EXCEPT
                          ![u][k] = Finished(t, IF e = "ok" /\ ~UnknownColumn
                                                  THEN "alert" ELSE "backend")]
            /\ sending' = SetSending(u, t, FALSE)
            /\ UNCHANGED <<messages, conversations, rt>>
  /\ UNCHANGED <<config, appVars, authVars, socialVars, route, list, subs, fetches>>

\* the client's own update of the last-message cache, then the refresh: a new
\* conversation is navigated to and fetchMessages of the sending render runs
\* from a timer; an existing one is just fetched again
NavigatesAfterSend(t) ==
  IF variant = 1 THEN ~t.existing \/ t.conv # t.rid ELSE ~t.existing

SendUpdate(u, k) ==
  LET t == send[u][k]
      convs == UpdateLastMessage(conversations, u, t.conv, t.text)
      own(F) == IF t.alive THEN AddFetch(F, convs, messages, u, t.rid) ELSE F
  IN
  /\ t.pc = "update"
  /\ conversations' = convs
  /\ IF NavigatesAfterSend(t)
       THEN /\ route' = NavRoute(u, t.conv)
            /\ list' = NavList(u, t.conv)
            /\ subs' = NavSubs(u, t.conv)
            /\ fetches' = [fetches EXCEPT
                             ![u] = own(NavFetches(convs, messages, u, t.conv))]
       ELSE /\ fetches' = [fetches EXCEPT ![u] = own(@)]
            /\ UNCHANGED <<route, list, subs>>
  /\ send' = [send EXCEPT ![u][k] = Finished(t, "sent")]
  /\ sending' = SetSending(u, t, FALSE)
  /\ UNCHANGED <<config, appVars, authVars, socialVars, faults, messages, rt>>

\* the retry timer fires: setSending(false); handleSend() of the same render
SendRetry(u, k) ==
  LET t == send[u][k] IN
  /\ t.pc = "retryWait"
  /\ send' = [send EXCEPT ![u][k] = [t EXCEPT !.pc = "check", !.retries = @ + 1]]
  /\ sending' = SetSending(u, t, TRUE)
  /\ UNCHANGED <<config, appVars, authVars, socialVars, faults, conversations, messages, route, list, subs, rt,
                 fetches>>

\* the screen opened on a route that no list offered: the id parameter is any
\* conversation's id
OpenLink(u, rid) ==
  /\ route[u] = NoRoute
  /\ rid \in {c.id : c \in conversations}
  /\ route' = NavRoute(u, rid)
  /\ list' = NavList(u, rid)
  /\ subs' = NavSubs(u, rid)
  /\ fetches' = [fetches EXCEPT ![u] = NavFetches(conversations, messages, u, rid)]
  /\ UNCHANGED <<config, appVars, authVars, socialVars, faults, conversations, messages, rt,
                 send, sending>>

\* handleFixMessages, option 'Fix Message Permissions': the first version reads
\* the conversation and shows it; the second marks the conversation's messages
\* received, which fails when the table has no such column
HandleFixMessages(u) ==
  LET conv == VisibleConv(conversations, u, route[u]) IN
  /\ route[u] # NoRoute
  /\ messages' = IF conv # {} /\ variant = 2 /\ extraCols
                   THEN MarkReceived(messages, u, route[u])
                   ELSE messages
  /\ UNCHANGED <<config, appVars, authVars, socialVars, faults, conversations, route, list, subs, rt,
                 fetches, send, sending>>

(***************************************************************************)
(* The AuthProvider (src/contexts/AuthContext.tsx) and the auth library it  *)
(* listens to.  One account uses the device.                                *)
(***************************************************************************)
MaxSessions == 3

AuthUser == "u1"

NoSession == 0

\* RLS is enabled on profiles and the schema defines SELECT and UPDATE
\* policies only: an INSERT by a client is refused.
ProfilesInsertPolicy(uid, id) == FALSE

\* profiles: id UUID PRIMARY KEY
ProfilesPrimaryKey(P, id) == \A r \in BagToSet(P) : r.id # id

\* an INSERT INTO profiles that nothing checks
ProfilesInsertUnchecked(P, uid, row) == TRUE

\* INSERT INTO profiles, as uid
ProfilesInsertAccepted(P, uid, row) ==
  /\ ProfilesInsertPolicy(uid, row.id)
  /\ ProfilesPrimaryKey(P, row.id)

\* the row ensureUserProfileExists inserts: the username of the user's metadata
MetadataProfile == [id |-> AuthUser, username |-> "meta"]

AuthStart ==
  /\ profiles \in {EmptyBag, SetToBag({[id |-> AuthUser, username |-> "old"]})}
  /\ libSession \in {NoSession, 1}
  /\ issued = libSession
  /\ session = NoSession
  /\ loading = TRUE
  /\ getSess = [pc |-> "pending", val |-> NoSession]
  /\ events = <<>>
  /\ ensures = {}

\* an ensureUserProfileExists(userId) invocation about to select the profile
EnsureTask(origin, n) == [origin |-> origin, n |-> n, pc |-> "check"]

\* the auth library emits an event to the onAuthStateChange listener
Emit(event, s) == Append(events, [event |-> event, session |-> s])

\* supabase.auth.getSession() reads the library's current session
GetSessionResolve ==
  /\ getSess.pc = "pending"
  /\ getSess' = [pc |-> "resolved", val |-> libSession]
  /\ UNCHANGED <<config, appVars, chatVars, socialVars, profiles, libSession, issued, session,
                 loading, events, ensures>>

\* initializeAuth after the await: setSession(data.session), then
\* ensureUserProfileExists when there is a session, else finally
InitializeAuthResume ==
  /\ getSess.pc = "resolved"
  /\ session' = getSess.val
  /\ IF getSess.val # NoSession
       THEN /\ ensures' = ensures \cup {EnsureTask("init", getSess.val)}
            /\ getSess' = [getSess EXCEPT !.pc = "ensuring"]
            /\ UNCHANGED loading
       ELSE /\ getSess' = [getSess EXCEPT !.pc = "done"]
            /\ loading' = FALSE
            /\ UNCHANGED ensures
  /\ UNCHANGED <<config, appVars, chatVars, socialVars, profiles, libSession, issued, events>>

\* signIn from the login screen: signInWithPassword gives the library a new
\* session, the library emits SIGNED_IN, signIn goes on to ensure the profile
SignIn ==
  /\ session = NoSession
  /\ issued < MaxSessions
  /\ issued' = issued + 1
  /\ libSession' = issued + 1
  /\ events' = Emit("SIGNED_IN", issued + 1)
  /\ ensures' = ensures \cup {EnsureTask("signIn", issued + 1)}
  /\ UNCHANGED <<config, appVars, chatVars, socialVars, profiles, session, loading, getSess>>

\* the library renews the token of its session and emits TOKEN_REFRESHED
TokenRefresh ==
  /\ libSession # NoSession
  /\ issued < MaxSessions
  /\ issued' = issued + 1
  /\ libSession' = issued + 1
  /\ events' = Emit("TOKEN_REFRESHED", issued + 1)
  /\ UNCHANGED <<config, appVars, chatVars, socialVars, profiles, session, loading, getSess,
                 ensures>>

\* signOut from a screen shown to a signed-in user
SignOut ==
  /\ session # NoSession
  /\ libSession # NoSession
  /\ libSession' = NoSession
  /\ events' = Emit("SIGNED_OUT", NoSession)
  /\ UNCHANGED <<config, appVars, chatVars, socialVars, profiles, issued, session, loading,
                 getSess, ensures>>

\* the onAuthStateChange listener up to its await
AuthCallback ==
  /\ events # <<>>
  /\ LET e == Head(events) IN
     /\ session' = e.session
     /\ IF e.session # NoSession /\ e.event \in {"SIGNED_IN", "TOKEN_REFRESHED"}
          THEN /\ ensures' = ensures \cup {EnsureTask("cb", e.session)}
               /\ UNCHANGED loading
          ELSE /\ loading' = FALSE
               /\ UNCHANGED ensures
  /\ events' = Tail(events)
  /\ UNCHANGED <<config, appVars, chatVars, socialVars, profiles, libSession, issued, getSess>>

\* what follows the return of ensureUserProfileExists in its caller
EnsureReturn(t) ==
  /\ ensures' = ensures \ {t}
  /\ loading' = IF t.origin \in {"init", "cb"} THEN FALSE ELSE loading
  /\ getSess' = IF t.origin = "init" THEN [getSess EXCEPT !.pc = "done"] ELSE getSess

\* ensureUserProfileExists: the select of the profile
EnsureCheck(t) ==
  /\ t \in ensures
  /\ t.pc = "check"
  /\ IF \E r \in BagToSet(profiles) : r.id = AuthUser
       THEN EnsureReturn(t)
       ELSE /\ ensures' = (ensures \ {t}) \cup {[t EXCEPT !.pc = "insert"]}
            /\ UNCHANGED <<loading, getSess>>
  /\ UNCHANGED <<config, appVars, chatVars, socialVars, profiles, libSession, issued, session,
                 events>>

\* ensureUserProfileExists: getUser and the insert of the profile (an error is logged)
EnsureInsert(t) ==
  /\ t \in ensures
  /\ t.pc = "insert"
  /\ profiles' = IF ProfilesInsertAccepted(profiles, AuthUser, MetadataProfile)
                   THEN profiles (+) SetToBag({MetadataProfile}) ELSE profiles
  /\ EnsureReturn(t)
  /\ UNCHANGED <<config, appVars, chatVars, socialVars, libSession, issued, session, events>>

(***************************************************************************)
(* Likes, comments, follow edges and notifications: the tables with their   *)
(* constraints, policies and the create_notification trigger.               *)
(***************************************************************************)
MaxComments == 1
MaxNotifs == 2
MaxPending == 2

NULL == "null"

\* the ids of table posts
PostIds == {"p1", "p2"}

\* the post the like, comment and follow handlers are followed on
Posts == {"p1"}

\* posts.user_id: p1 written by u1, p2 by u2
PostOwner == [p \in PostIds |-> IF p = "p1" THEN "u1" ELSE "u2"]

CommentNames == <<"k1", "k2", "k3">>

\* id UUID DEFAULT uuid_generate_v4()
NewCommentId(C) == CommentNames[Cardinality(C) + 1]

NewRowId(T) == CHOOSE n \in 1..(Cardinality(T) + 1) : \A r \in T : r.id # n

\* likes: CHECK exactly one of post_id, comment_id
LikesCheck(row) ==
  \/ row.post # NULL /\ row.comment = NULL
  \/ row.post = NULL /\ row.comment # NULL

LikesUniqueDropped(L, row) == TRUE

\* likes: UNIQUE(user_id, post_id), UNIQUE(user_id, comment_id); NULLs are distinct
LikesUnique(L, row) ==
  ~\E r \in L : /\ r.user = row.user
                /\ \/ row.post # NULL /\ r.post = row.post
                   \/ row.comment # NULL /\ r.comment = row.comment

\* "Users can delete their own likes"
LikesDeletePolicy(uid, r) == uid = r.user

FollowersUniqueDropped(F, row) == TRUE

\* followers: UNIQUE(follower_id, following_id)
FollowersUnique(F, row) ==
  ~\E r \in F : r.follower = row.follower /\ r.following = row.following

\* followers: CHECK (status IN ('pending', 'accepted', 'rejected'))
FollowersCheck(row) == row.status \in {"pending", "accepted", "rejected"}

\* "Users can update their own follow requests"
FollowersUpdatePolicy(uid, r) == uid = r.following

\* "Users can delete their own follow requests"
FollowersDeletePolicy(uid, r) == uid = r.follower \/ uid = r.following

NotificationsCheckDropped(n) == TRUE

\* notifications: CHECK on type and targets
NotificationsCheck(n) ==
  \/ n.type \in {"like", "comment"} /\ n.post # NULL
  \/ n.type \in {"follow", "follow_request"} /\ n.post = NULL /\ n.comment = NULL

\* a row as create_notification inserts it (read defaults to FALSE)
Notification(recipient, actor, type, post, comment) ==
  [recipient |-> recipient, user |-> actor, type |-> type, post |-> post,
   comment |-> comment, read |-> FALSE]

\* create_notification for likes, had it no test of the post's owner
LikeNotificationsToOwner(C, new) ==
  IF new.post # NULL
    THEN <<Notification(PostOwner[new.post], new.user, "like", new.post, NULL)>>
    ELSE <<>>

\* create_notification, TG_TABLE_NAME = 'likes': the rows it inserts
LikeNotifications(C, new) ==
  IF new.post # NULL
    THEN IF PostOwner[new.post] # new.user
           THEN <<Notification(PostOwner[new.post], new.user, "like", new.post, NULL)>>
           ELSE <<>>
    ELSE LET owners == {c \in C : c.id = new.comment /\ c.user # new.user} IN
         IF owners # {}
           THEN <<Notification((CHOOSE c \in owners : TRUE).user, new.user, "like",
                               NULL, new.comment)>>
           ELSE <<>>

\* create_notification, TG_TABLE_NAME = 'comments'
CommentNotifications(new) ==
  IF PostOwner[new.post] # new.user
    THEN <<Notification(PostOwner[new.post], new.user, "comment", new.post, NULL)>>
    ELSE <<>>

\* create_notification, TG_TABLE_NAME = 'followers' (AFTER INSERT OR UPDATE)
FollowerNotifications(new) ==
  IF new.status = "pending"
    THEN <<Notification(new.following, new.follower, "follow_request", NULL, NULL)>>
  ELSE IF new.status = "accepted"
    THEN <<Notification(new.follower, new.following, "follow", NULL, NULL)>>
  ELSE <<>>

\* a statement whose trigger inserts a row the notifications CHECK refuses fails as a whole
TriggerAccepted(notes) == \A i \in 1..Len(notes) : NotificationsCheck(notes[i])

\* INSERT INTO likes
LikeInsertAccepted(L, C, row) ==
  /\ LikesCheck(row)
  /\ LikesUnique(L, row)
  /\ TriggerAccepted(LikeNotifications(C, row))

\* INSERT INTO followers
FollowerInsertAccepted(F, row) ==
  /\ FollowersCheck(row)
  /\ FollowersUnique(F, row)
  /\ TriggerAccepted(FollowerNotifications(row))

\* UPDATE followers SET status = st WHERE id = rid, as uid: the table afterwards
UpdateFollowerStatus(F, uid, rid, st) ==
  {IF r.id = rid /\ FollowersUpdatePolicy(uid, r) THEN [r EXCEPT !.status = st] ELSE r :
     r \in F}

\* the notifications of that UPDATE: the trigger fires for each row it touched
UpdateNotifications(F, uid, rid, st) ==
  LET touched == {r \in F : r.id = rid /\ FollowersUpdatePolicy(uid, r)} IN
  IF touched = {} THEN <<>>
  ELSE FollowerNotifications([(CHOOSE r \in touched : TRUE) EXCEPT !.status = st])

(***************************************************************************)
(* The handlers of the home, comments, search and follow-request screens.   *)
(***************************************************************************)
SocialStart ==
  /\ comments = {}
  /\ likes = {}
  /\ followers = {}
  /\ notifications = <<>>
  /\ liked = [u \in Users |-> FALSE]
  /\ cliked = [u \in Users |-> {}]
  /\ following = [u \in Users |-> FALSE]
  /\ likeOps = EmptyBag

\* a handleLike invocation that has read is_liked and is about to send its request
LikeOp(u, post, comment, isLiked) ==
  [user |-> u, post |-> post, comment |-> comment, isLiked |-> isLiked]

\* home screen, handleLike(postId) up to its await
HomeHandleLike(u, p) ==
  /\ BagCardinality(likeOps) < MaxPending
  /\ likeOps' = likeOps (+) SetToBag({LikeOp(u, p, NULL, liked[u])})
  /\ UNCHANGED <<config, appVars, chatVars, authVars, comments, likes, followers, notifications,
                 liked, cliked, following>>

\* comments screen, handleLike(commentId) up to its await
CommentsHandleLike(u, k) ==
  /\ BagCardinality(likeOps) < MaxPending
  /\ k \in {c.id : c \in comments}
  /\ likeOps' = likeOps (+) SetToBag({LikeOp(u, NULL, k, k \in cliked[u])})
  /\ UNCHANGED <<config, appVars, chatVars, authVars, comments, likes, followers, notifications,
                 liked, cliked, following>>

\* setPosts / setComments of a handleLike that succeeded
SetLiked(op, v) == IF op.post # NULL THEN [liked EXCEPT ![op.user] = v] ELSE liked

SetCommentLiked(op, v) ==
  IF op.comment = NULL THEN cliked
  ELSE [cliked EXCEPT ![op.user] = IF v THEN @ \cup {op.comment} ELSE @ \ {op.comment}]

\* handleLike from its request on: the delete or the insert (which names
\* is_like, no column of schema.sql), then the local update, or the alert when
\* the request failed
LikeRequest(op) ==
  LET row == [id |-> NewRowId(likes), user |-> op.user, post |-> op.post,
              comment |-> op.comment]
      notes == LikeNotifications(comments, row)
      hit == {r \in likes : /\ r.user = op.user /\ LikesDeletePolicy(op.user, r)
                            /\ IF op.post # NULL THEN r.post = op.post
                                                 ELSE r.comment = op.comment}
  IN
  /\ BagIn(op, likeOps)
  /\ likeOps' = likeOps (-) SetToBag({op})
  /\ IF op.isLiked
       THEN /\ likes' = likes \ hit
            /\ liked' = SetLiked(op, FALSE)
            /\ cliked' = SetCommentLiked(op, FALSE)
            /\ UNCHANGED notifications
     ELSE IF extraCols /\ LikeInsertAccepted(likes, comments, row)
       THEN /\ Len(notifications) + Len(notes) <= MaxNotifs
            /\ likes' = likes \cup {row}
            /\ notifications' = notifications \o notes
            /\ liked' = SetLiked(op, TRUE)
            /\ cliked' = SetCommentLiked(op, TRUE)
       ELSE UNCHANGED <<likes, notifications, liked, cliked>>
  /\ UNCHANGED <<config, appVars, chatVars, authVars, comments, followers, following>>

\* "Posts are viewable by everyone"
PostsSelectPolicy(uid, p) == TRUE

\* a row of likes for a post as handleLike inserts it
LikeRow(L, u, p) == [id |-> NewRowId(L), user |-> u, post |-> p, comment |-> NULL]

\* fetchData, processedPosts: likes_count is the count of the post's likes,
\* is_liked whether one of them is the user's
ProcessedPosts(L, u) ==
  [p \in PostIds |->
     [is_liked |-> \E r \in L : r.post = p /\ r.user = u,
      likes_count |-> Cardinality({r \in L : r.post = p})]]

\* home screen, fetchData: every post the select returns, with is_liked from
\* the likes table
FetchData(u) ==
  /\ feed' = [feed EXCEPT ![u] = {p \in Posts : PostsSelectPolicy(u, p)}]
  /\ liked' = [liked EXCEPT ![u] = \E r \in likes : r.user = u /\ r.post \in Posts]
  /\ homePosts' = IF u = Viewer THEN ProcessedPosts(likes, u) ELSE homePosts
  /\ UNCHANGED <<config, profileVars, notifVars, postVars, chatVars, authVars, comments, likes,
                 followers, notifications, cliked, following, likeOps, homeLikes, likeAlert>>

\* home screen, handleLike(postId) up to its await: it closes over posts
HandleLike(p) ==
  /\ BagCardinality(homeLikes) < MaxPending
  /\ homeLikes' = homeLikes (+) SetToBag({[post |-> p, posts |-> homePosts]})
  /\ UNCHANGED <<config, chatVars, authVars, socialVars, profileVars, feedVars, notifVars,
                 postVars, homePosts, likeAlert>>

\* whether the request of that invocation comes back with an error: the
\* delete never does, the insert when the table refuses the row
LikeRefused(op) ==
  /\ ~op.posts[op.post].is_liked
  /\ ~(extraCols /\ LikeInsertAccepted(likes, comments, LikeRow(likes, Viewer, op.post)))

\* setPosts(posts.map(...)): the closed-over posts with the one post changed
MappedPosts(op) ==
  [op.posts EXCEPT ![op.post] =
     IF @.is_liked THEN [is_liked |-> FALSE, likes_count |-> @.likes_count - 1]
                   ELSE [is_liked |-> TRUE, likes_count |-> @.likes_count + 1]]

\* handleLike from its request on: the delete or the insert, then setPosts,
\* or the alert of the catch block
HandleLikeRequest(op) ==
  LET row == LikeRow(likes, Viewer, op.post)
      notes == LikeNotifications(comments, row)
      hit == {r \in likes : /\ r.user = Viewer /\ r.post = op.post
                            /\ LikesDeletePolicy(Viewer, r)}
  IN
  /\ BagIn(op, homeLikes)
  /\ homeLikes' = homeLikes (-) SetToBag({op})
  /\ IF LikeRefused(op)
       THEN /\ likeAlert' = TRUE
            /\ UNCHANGED <<likes, notifications, homePosts>>
     ELSE IF op.posts[op.post].is_liked
       THEN /\ likes' = likes \ hit
            /\ homePosts' = MappedPosts(op)
            /\ UNCHANGED <<notifications, likeAlert>>
       ELSE /\ Len(notifications) + Len(notes) <= MaxNotifs
            /\ likes' = likes \cup {row}
            /\ notifications' = notifications \o notes
            /\ homePosts' = MappedPosts(op)
            /\ UNCHANGED likeAlert
  /\ UNCHANGED <<config, chatVars, authVars, profileVars, feedVars, notifVars, postVars,
                 comments, followers, liked, cliked, following, likeOps>>

\* the user closes the alert
DismissLikeAlert ==
  /\ likeAlert
  /\ likeAlert' = FALSE
  /\ UNCHANGED <<config, chatVars, authVars, socialVars, profileVars, feedVars, notifVars,
                 postVars, homePosts, homeLikes>>

\* what fetchComments leaves in the comments screen of user u
FetchedCommentLikes(L, u) == {r.comment : r \in {x \in L : x.user = u /\ x.comment # NULL}}

FetchComments(u) ==
  /\ cliked' = [cliked EXCEPT ![u] = FetchedCommentLikes(likes, u)]
  /\ UNCHANGED <<config, appVars, chatVars, authVars, comments, likes, followers, notifications,
                 liked, following, likeOps>>

\* comments screen, handleSubmit: the insert, then fetchComments
HandleSubmit(u, p) ==
  LET row == [id |-> NewCommentId(comments), post |-> p, user |-> u]
      notes == CommentNotifications(row)
  IN
  /\ Cardinality(comments) < MaxComments
  /\ Len(notifications) + Len(notes) <= MaxNotifs
  /\ IF TriggerAccepted(notes)
       THEN /\ comments' = comments \cup {row}
            /\ notifications' = notifications \o notes
            /\ cliked' = [cliked EXCEPT ![u] = FetchedCommentLikes(likes, u)]
       ELSE UNCHANGED <<comments, notifications, cliked>>
  /\ UNCHANGED <<config, appVars, chatVars, authVars, likes, followers, liked, following, likeOps>>

\* search screen, searchUsers: is_following is whether a row follower -> user exists
SearchUsers(u) ==
  /\ following' = [following EXCEPT
                     ![u] = \E r \in followers : r.follower = u /\ r.following = Other(u)]
  /\ UNCHANGED <<config, appVars, chatVars, authVars, comments, likes, followers, notifications,
                 liked, cliked, likeOps>>

\* search screen, handleFollow: unfollow when is_following, else the insert with
\* status accepted and skip_notification (no column of schema.sql), else the
\* insert of the two ids alone, else table follow_requests (no table of schema.sql)
HandleFollow(u) ==
  LET v == Other(u)
      flagged == [id |-> NewRowId(followers), follower |-> u, following |-> v,
                  status |-> "accepted"]
      basic == [flagged EXCEPT !.status = "pending"]
      first == extraCols /\ FollowerInsertAccepted(followers, flagged)
      second == FollowerInsertAccepted(followers, basic)
      row == IF first THEN flagged ELSE basic
      mine == {r \in followers : /\ r.follower = u /\ r.following = v
                                 /\ FollowersDeletePolicy(u, r)}
  IN
  /\ IF following[u]
       THEN /\ followers' = followers \ mine
            /\ following' = [following EXCEPT ![u] = FALSE]
            /\ UNCHANGED notifications
     ELSE IF first \/ second
       THEN /\ Len(notifications) + Len(FollowerNotifications(row)) <= MaxNotifs
            /\ followers' = followers \cup {row}
            /\ notifications' = notifications \o FollowerNotifications(row)
            /\ following' = [following EXCEPT ![u] = TRUE]
       ELSE UNCHANGED <<followers, notifications, following>>
  /\ UNCHANGED <<config, appVars, chatVars, authVars, comments, likes, liked, cliked, likeOps>>

\* home screen, handleConnect(userId), refused for the user's own id; accept is
\* the user's answer to the 'Follow Request' alert (Accept Request or Cancel).
\* .single() yields a row only when exactly one matches.
HandleConnect(u, v, accept) ==
  LET existing == {r \in followers : r.follower = u /\ r.following = v}
      other == {r \in followers : r.follower = v /\ r.following = u}
      e == CHOOSE r \in existing : TRUE
      o == CHOOSE r \in other : TRUE
      accepted == UpdateFollowerStatus(followers, u, o.id, "accepted")
      back == [id |-> NewRowId(accepted), follower |-> u, following |-> v,
               status |-> "accepted"]
      ok == FollowerInsertAccepted(accepted, back)
      both == UpdateNotifications(followers, u, o.id, "accepted") \o
                (IF ok THEN FollowerNotifications(back) ELSE <<>>)
      request == [back EXCEPT !.id = NewRowId(followers), !.status = "pending"]
  IN
  /\ u # v
  /\ IF Cardinality(existing) = 1
       THEN IF e.status = "rejected"
              THEN /\ followers' = UpdateFollowerStatus(followers, u, e.id, "pending")
                   /\ notifications' =
                        notifications \o UpdateNotifications(followers, u, e.id, "pending")
              ELSE UNCHANGED <<followers, notifications>>
     ELSE IF Cardinality(other) = 1 /\ o.status = "pending"
       THEN IF accept
              THEN /\ Len(notifications) + Len(both) <= MaxNotifs
                   /\ followers' = IF ok THEN accepted \cup {back} ELSE accepted
                   /\ notifications' = notifications \o both
              ELSE UNCHANGED <<followers, notifications>>
     ELSE IF FollowerInsertAccepted(followers, request)
       THEN /\ Len(notifications) + Len(FollowerNotifications(request)) <= MaxNotifs
            /\ followers' = followers \cup {request}
            /\ notifications' = notifications \o FollowerNotifications(request)
       ELSE UNCHANGED <<followers, notifications>>
  /\ UNCHANGED <<config, appVars, chatVars, authVars, comments, likes, liked, cliked, following,
                 likeOps>>

\* the requests the follow-request screen lists for user u (fetchRequests)
FetchRequests(F, u) == {r \in F : r.following = u /\ r.status = "pending"}

\* follow-request screen, handleAccept(requestId)
HandleAccept(u, r) ==
  LET notes == UpdateNotifications(followers, u, r.id, "accepted") IN
  /\ r \in FetchRequests(followers, u)
  /\ Len(notifications) + Len(notes) <= MaxNotifs
  /\ followers' = UpdateFollowerStatus(followers, u, r.id, "accepted")
  /\ notifications' = notifications \o notes
  /\ UNCHANGED <<config, appVars, chatVars, authVars, comments, likes, liked, cliked, following,
                 likeOps>>

\* follow-request screen, handleReject(requestId): the row is deleted
HandleReject(u, r) ==
  /\ r \in FetchRequests(followers, u)
  /\ followers' = {x \in followers : ~(x.id = r.id /\ FollowersDeletePolicy(u, x))}
  /\ UNCHANGED <<config, appVars, chatVars, authVars, comments, likes, notifications, liked,
                 cliked, following, likeOps>>

(***************************************************************************)
(* The statements of an authenticated client that fire the notification     *)
(* trigger: inserts into likes, comments and followers, updates of          *)
(* followers.                                                               *)
(***************************************************************************)

\* status values a client may send: the three of the CHECK and one outside it
FollowStatuses == {"pending", "accepted", "rejected", "blocked"}

\* INSERT INTO likes (user_id, post_id, comment_id)
InsertLike(u, p, k) ==
  LET row == [id |-> NewRowId(likes), user |-> u, post |-> p, comment |-> k]
      notes == LikeNotifications(comments, row)
  IN
  /\ Len(notifications) + Len(notes) <= MaxNotifs
  /\ IF LikeInsertAccepted(likes, comments, row)
       THEN /\ likes' = likes \cup {row}
            /\ notifications' = notifications \o notes
       ELSE UNCHANGED <<likes, notifications>>
  /\ UNCHANGED <<config, appVars, chatVars, authVars, comments, followers, liked, cliked,
                 following, likeOps>>

\* INSERT INTO comments (post_id, user_id, content)
InsertComment(u, p) ==
  LET row == [id |-> NewCommentId(comments), post |-> p, user |-> u]
      notes == CommentNotifications(row)
  IN
  /\ Cardinality(comments) < MaxComments
  /\ Len(notifications) + Len(notes) <= MaxNotifs
  /\ IF TriggerAccepted(notes)
       THEN /\ comments' = comments \cup {row}
            /\ notifications' = notifications \o notes
       ELSE UNCHANGED <<comments, notifications>>
  /\ UNCHANGED <<config, appVars, chatVars, authVars, likes, followers, liked, cliked, following,
                 likeOps>>

\* INSERT INTO followers (follower_id, following_id, status), u following the other user
InsertFollower(u, st) ==
  LET row == [id |-> NewRowId(followers), follower |-> u, following |-> Other(u),
              status |-> st]
      notes == FollowerNotifications(row)
  IN
  /\ Len(notifications) + Len(notes) <= MaxNotifs
  /\ IF FollowerInsertAccepted(followers, row)
       THEN /\ followers' = followers \cup {row}
            /\ notifications' = notifications \o notes
       ELSE UNCHANGED <<followers, notifications>>
  /\ UNCHANGED <<config, appVars, chatVars, authVars, comments, likes, liked, cliked, following,
                 likeOps>>

\* UPDATE followers SET status = st WHERE id = r.id
UpdateFollower(u, r, st) ==
  LET notes == UpdateNotifications(followers, u, r.id, st) IN
  /\ r \in followers
  /\ Len(notifications) + Len(notes) <= MaxNotifs
  /\ IF FollowersCheck([r EXCEPT !.status = st]) /\ TriggerAccepted(notes)
       THEN /\ followers' = UpdateFollowerStatus(followers, u, r.id, st)
            /\ notifications' = notifications \o notes
       ELSE UNCHANGED <<followers, notifications>>
  /\ UNCHANGED <<config, appVars, chatVars, authVars, comments, likes, liked, cliked, following,
                 likeOps>>

(***************************************************************************)
(* Usernames: the sign-up screen (handleSignup, signUp) and the             *)
(* edit-profile screen (handleSave) against table profiles.                 *)
(***************************************************************************)
Names == {"a", "b", "c"}

\* the accounts: the two users, who have a profile, and one that signs up
Accounts == Users \cup {Stranger}

ProfilesUsernameUniqueDropped(U, id, name) == TRUE

\* profiles: username TEXT UNIQUE NOT NULL
ProfilesUsernameUnique(U, id, name) == ~\E v \in DOMAIN U : v # id /\ U[v] = name

\* "Users can update their own profile"
ProfilesUpdatePolicy(uid, id) == uid = id

IdleSave == [pc |-> "idle", name |-> NULL, alert |-> "none"]

ProfileOff ==
  /\ usernames = [v \in Accounts |-> IF v = "u1" THEN "a" ELSE IF v = "u2" THEN "b" ELSE NULL]
  /\ saves = [v \in Accounts |-> IdleSave]

\* handleSave up to its update: the 'already taken' check
HandleSaveCheck(u, name) ==
  LET taken == \E v \in Accounts : v # u /\ usernames[v] = name IN
  /\ saves[u].pc = "idle"
  /\ saves' = [saves EXCEPT ![u] = IF taken
                                     THEN [IdleSave EXCEPT !.alert = "taken"]
                                     ELSE [pc |-> "update", name |-> name, alert |-> "none"]]
  /\ UNCHANGED <<config, chatVars, authVars, socialVars, feedVars, notifVars, postVars, homeVars, usernames>>

\* handleSave from its update on
HandleSaveUpdate(u) ==
  LET t == saves[u]
      mine == usernames[u] # NULL /\ ProfilesUpdatePolicy(u, u)
      ok == mine => ProfilesUsernameUnique(usernames, u, t.name)
  IN
  /\ t.pc = "update"
  /\ usernames' = IF mine /\ ok THEN [usernames EXCEPT ![u] = t.name] ELSE usernames
  /\ saves' = [saves EXCEPT ![u] = [IdleSave EXCEPT !.alert = IF ok THEN "Success"
                                                                      ELSE "Error"]]
  /\ UNCHANGED <<config, chatVars, authVars, socialVars, feedVars, notifVars, postVars, homeVars>>

\* handleSignup up to signUp: the 'already taken' check
HandleSignupCheck(name) ==
  LET taken == \E v \in Accounts : usernames[v] = name IN
  /\ saves[Stranger].pc = "idle"
  /\ saves' = [saves EXCEPT ![Stranger] = IF taken
                                            THEN [IdleSave EXCEPT !.alert = "taken"]
                                            ELSE [pc |-> "signUp", name |-> name,
                                                  alert |-> "none"]]
  /\ UNCHANGED <<config, chatVars, authVars, socialVars, feedVars, notifVars, postVars, homeVars, usernames>>

\* signUp: with a session it inserts the profile and throws when that fails;
\* without one (email confirmation required) it inserts nothing
SignUp(withSession) ==
  LET t == saves[Stranger]
      ok == /\ ProfilesInsertPolicy(Stranger, Stranger)
            /\ usernames[Stranger] = NULL
            /\ ProfilesUsernameUnique(usernames, Stranger, t.name)
  IN
  /\ t.pc = "signUp"
  /\ usernames' = IF withSession /\ ok THEN [usernames EXCEPT ![Stranger] = t.name]
                                       ELSE usernames
  /\ saves' = [saves EXCEPT ![Stranger] =
                 [IdleSave EXCEPT !.alert = IF withSession /\ ~ok THEN "Error"
                                                                  ELSE "Success"]]
  /\ UNCHANGED <<config, chatVars, authVars, socialVars, feedVars, notifVars, postVars, homeVars>>

(***************************************************************************)
(* One device, signed in as Viewer: the Home screens' registration of       *)
(* global.updateNotificationBadges and the Notifications screen.            *)
(***************************************************************************)
MaxHomes == 2

\* "Notifications are viewable by recipient"
NotificationsSelectPolicy(uid, n) == uid = n.recipient

\* "Users can update their own notifications"
NotificationsUpdatePolicy(uid, n) == uid = n.recipient

\* rows the trigger has written: u2 liked u1's post, u2 asked to follow u1,
\* u1 accepted u2's request
TriggerRows ==
  {LikeNotifications({}, [user |-> "u2", post |-> "p1", comment |-> NULL])[1],
   FollowerNotifications([follower |-> "u2", following |-> "u1", status |-> "pending"])[1],
   FollowerNotifications([follower |-> "u2", following |-> "u1", status |-> "accepted"])[1]}

\* the notifications tables the device may find
NotifTables ==
  UNION {[1..n -> TriggerRows] : n \in 1..MaxNotifs}

\* SELECT id FROM notifications WHERE recipient_id = uid [AND read = false], as uid
NotificationIds(N, uid, unreadOnly) ==
  SelectSeq([i \in 1..Len(N) |-> i],
            LAMBDA i : /\ N[i].recipient = uid
                       /\ NotificationsSelectPolicy(uid, N[i])
                       /\ unreadOnly => ~N[i].read)

\* the statement below without its recipient filter and policy
MarkReadAll(N, uid) == [i \in 1..Len(N) |-> [N[i] EXCEPT !.read = TRUE]]

\* UPDATE notifications SET read = true WHERE recipient_id = uid AND read = false
MarkRead(N, uid) ==
  [i \in 1..Len(N) |->
     IF N[i].recipient = uid /\ NotificationsUpdatePolicy(uid, N[i]) /\ ~N[i].read
       THEN [N[i] EXCEPT !.read = TRUE] ELSE N[i]]

\* UPDATE notifications SET read = true WHERE id = id, for each id of ids, as uid
MarkReadRows(N, uid, ids) ==
  [i \in 1..Len(N) |->
     IF (\E k \in 1..Len(ids) : ids[k] = i) /\ NotificationsUpdatePolicy(uid, N[i])
       THEN [N[i] EXCEPT !.read = TRUE] ELSE N[i]]

\* fetchNotifications: the entry built for a row.  The actor is the profile of
\* the post's author when the row has a post, else a placeholder.
ProcessedNotification(N, i) ==
  [id |-> i, read |-> N[i].read,
   actor |-> IF N[i].post # NULL THEN PostOwner[N[i].post] ELSE "unknown"]

ProcessedNotifications(N, uid) ==
  LET ids == NotificationIds(N, uid, FALSE) IN
  [k \in 1..Len(ids) |-> ProcessedNotification(N, ids[k])]

\* notifications.map(n => ({ ...n, read: true }))
AllRead(lst) == [k \in 1..Len(lst) |-> [lst[k] EXCEPT !.read = TRUE]]

\* global.updateNotificationBadges(0), when the slot holds a callback: the
\* Home screen's count is set and an update of the unread rows is sent, not
\* awaited (the repeated call from a timer sends the same update again)
ForceBadges == forced \/ badgeSlot # 0

\* the screen renders its header and list unless loading && !refreshing
HeaderShown == \A f \in nfetch : f.refreshing

NotifOff ==
  /\ homes = {1}
  /\ badgeSlot = 1
  /\ nopen = FALSE
  /\ nlist = <<>>
  /\ nfetch = {}
  /\ nmark = {}
  /\ forced = FALSE

\* router.push('/home') or router.replace('/home'): a Home instance mounts and
\* its effect registers its callback
MountHome(h) ==
  /\ ~nopen
  /\ h \notin homes
  /\ homes' = homes \cup {h}
  /\ badgeSlot' = h
  /\ UNCHANGED <<config, profileVars, feedVars, postVars, homeVars, chatVars, authVars, comments, likes,
               followers,
               liked, cliked, following, likeOps, notifications,
               nopen, nlist, nfetch, nmark, forced>>

\* a Home instance unmounts (popped, or replaced by another route): the
\* effect's cleanup clears the slot
UnmountHome(h) ==
  /\ ~nopen
  /\ h \in homes
  /\ homes' = homes \ {h}
  /\ badgeSlot' = 0
  /\ UNCHANGED <<config, profileVars, feedVars, postVars, homeVars, chatVars, authVars, comments, likes,
               followers,
               liked, cliked, following, likeOps, notifications,
               nopen, nlist, nfetch, nmark, forced>>

\* the Notifications screen mounts: fetchNotifications(), the forced badge
\* update and markAllAsRead() start together; markAllAsRead closes over the
\* notifications of this first render
OpenNotifications ==
  /\ ~nopen
  /\ nopen' = TRUE
  /\ nlist' = <<>>
  /\ nfetch' = {[pc |-> "select", rows |-> <<>>, refreshing |-> FALSE]}
  /\ nmark' = {[pc |-> "select", closure |-> <<>>, unread |-> <<>>]}
  /\ forced' = ForceBadges
  /\ UNCHANGED <<config, profileVars, feedVars, postVars, homeVars, chatVars, authVars, comments, likes,
               followers,
               liked, cliked, following, likeOps, notifications,
               homes, badgeSlot>>

\* fetchNotifications: the select and the entries built from its rows
FetchNotificationsSelect(f) ==
  /\ f \in nfetch
  /\ f.pc = "select"
  /\ nfetch' = (nfetch \ {f}) \cup
                 {[f EXCEPT !.pc = "set",
                            !.rows = ProcessedNotifications(notifications, Viewer)]}
  /\ UNCHANGED <<config, profileVars, feedVars, postVars, homeVars, chatVars, authVars, comments, likes,
               followers,
               liked, cliked, following, likeOps, notifications,
               homes, badgeSlot, nopen, nlist, nmark, forced>>

\* fetchNotifications: setNotifications(processedNotifications)
FetchNotificationsSet(f) ==
  /\ f \in nfetch
  /\ f.pc = "set"
  /\ nfetch' = nfetch \ {f}
  /\ nlist' = f.rows
  /\ UNCHANGED <<config, profileVars, feedVars, postVars, homeVars, chatVars, authVars, comments, likes,
               followers,
               liked, cliked, following, likeOps, notifications,
               homes, badgeSlot, nopen, nmark, forced>>

\* the Notifications screen's handleRefresh (pull-to-refresh)
NotificationsHandleRefresh ==
  /\ nopen
  /\ nfetch = {}
  /\ nfetch' = {[pc |-> "select", rows |-> <<>>, refreshing |-> TRUE]}
  /\ UNCHANGED <<config, profileVars, feedVars, postVars, homeVars, chatVars, authVars, comments, likes,
               followers,
               liked, cliked, following, likeOps, notifications,
               homes, badgeSlot, nopen, nlist, nmark, forced>>

\* markAllAsRead: the select of the unread rows; it returns when there are none
MarkAllSelect(m) ==
  /\ m \in nmark
  /\ m.pc = "select"
  /\ nmark' = IF NotificationIds(notifications, Viewer, TRUE) = <<>>
                THEN nmark \ {m}
                ELSE (nmark \ {m}) \cup
                       {[m EXCEPT !.pc = "update",
                                  !.unread = NotificationIds(notifications, Viewer, TRUE)]}
  /\ UNCHANGED <<config, profileVars, feedVars, postVars, homeVars, chatVars, authVars, comments, likes,
               followers,
               liked, cliked, following, likeOps, notifications,
               homes, badgeSlot, nopen, nlist, nfetch, forced>>

\* markAllAsRead: the batch update or, when the batch fails, the update of
\* each row the select returned
MarkAllUpdate(m, batch) ==
  /\ m \in nmark
  /\ m.pc = "update"
  /\ notifications' = IF batch THEN MarkRead(notifications, Viewer)
                               ELSE MarkReadRows(notifications, Viewer, m.unread)
  /\ nmark' = (nmark \ {m}) \cup {[m EXCEPT !.pc = "finish"]}
  /\ UNCHANGED <<config, profileVars, feedVars, postVars, homeVars, chatVars, authVars, comments, likes,
               followers,
               liked, cliked, following, likeOps,
               homes, badgeSlot, nopen, nlist, nfetch, forced>>

\* markAllAsRead, after the verifying select: setNotifications(notifications.map(..))
\* on the notifications it closed over, then the forced badge update
MarkAllFinish(m) ==
  /\ m \in nmark
  /\ m.pc = "finish"
  /\ nmark' = nmark \ {m}
  /\ nlist' = AllRead(m.closure)
  /\ forced' = ForceBadges
  /\ UNCHANGED <<config, profileVars, feedVars, postVars, homeVars, chatVars, authVars, comments, likes,
               followers,
               liked, cliked, following, likeOps, notifications,
               homes, badgeSlot, nopen, nfetch>>

\* the header's button: markAllAsRead of the current render and the forced
\* badge update
HandleMarkAll ==
  /\ nopen
  /\ HeaderShown
  /\ nmark = {}
  /\ nmark' = {[pc |-> "select", closure |-> nlist, unread |-> <<>>]}
  /\ forced' = ForceBadges
  /\ UNCHANGED <<config, profileVars, feedVars, postVars, homeVars, chatVars, authVars, comments, likes,
               followers,
               liked, cliked, following, likeOps, notifications,
               homes, badgeSlot, nopen, nlist, nfetch>>

\* the update sent by updateNotificationBadges(0) reaches the database
ForcedUpdate ==
  /\ forced
  /\ forced' = FALSE
  /\ notifications' = MarkRead(notifications, Viewer)
  /\ UNCHANGED <<config, profileVars, feedVars, postVars, homeVars, chatVars, authVars, comments, likes,
               followers,
               liked, cliked, following, likeOps,
               homes, badgeSlot, nopen, nlist, nfetch, nmark>>

\* router.back() on the Notifications screen, once its requests have returned
CloseNotifications ==
  /\ nopen
  /\ nfetch = {}
  /\ nmark = {}
  /\ nopen' = FALSE
  /\ nlist' = <<>>
  /\ UNCHANGED <<config, profileVars, feedVars, postVars, homeVars, chatVars, authVars, comments, likes,
               followers,
               liked, cliked, following, likeOps, notifications,
               homes, badgeSlot, nfetch, nmark, forced>>

(***************************************************************************)
(* The profile screen's post handlers over the table posts.  The handlers   *)
(* take the post from the screen's state and the user from the session of   *)
(* the current render, so the post is an input of its own.                  *)
(***************************************************************************)
\* what a user types into the edit box
Draft == [u \in Users |-> IF u = "u1" THEN "x1" ELSE "x2"]

\* the table as the handlers find it: p1 by u1 (PostOwner), p2 by u2
PostsStart ==
  {[id |-> p, user |-> IF p = "p1" THEN "u1" ELSE "u2", content |-> "old"] : p \in PostIds}

\* "Users can update their own posts"
PostsUpdatePolicy(uid, row) == uid = row.user

\* "Users can delete their own posts"
PostsDeletePolicy(uid, row) == uid = row.user

\* the same statement with neither the user_id filter nor the policy
DeletePostById(P, uid, pid) == {r \in P : r.id # pid}

\* posts.delete().eq('id', pid).eq('user_id', uid), as uid: the table afterwards
DeletePost(P, uid, pid) ==
  {r \in P : ~(r.id = pid /\ r.user = uid /\ PostsDeletePolicy(uid, r))}

\* posts.update({ content: text }).eq('id', pid).eq('user_id', uid), as uid
UpdatePost(P, uid, pid, text) ==
  {IF r.id = pid /\ r.user = uid /\ PostsUpdatePolicy(uid, r)
     THEN [r EXCEPT !.content = text] ELSE r : r \in P}

PostOff ==
  /\ postRows = PostsStart
  /\ shownPosts = [u \in Users |-> {}]
  /\ editingPost = [u \in Users |-> NULL]
  /\ postAlert = [u \in Users |-> "none"]

\* fetchProfile: the posts of the session's user
FetchProfile(u) ==
  /\ shownPosts' = [shownPosts EXCEPT ![u] =
                      {r.id : r \in {q \in postRows : PostsSelectPolicy(u, q.id) /\ q.user = u}}]
  /\ UNCHANGED <<config, profileVars, feedVars, notifVars, homeVars, chatVars, authVars, socialVars,
               postRows, editingPost, postAlert>>

\* handleEditPost(post)
HandleEditPost(u, p) ==
  /\ editingPost' = [editingPost EXCEPT ![u] = p]
  /\ UNCHANGED <<config, profileVars, feedVars, notifVars, homeVars, chatVars, authVars, socialVars,
               postRows, shownPosts, postAlert>>

\* handleSaveEdit: an update that matches no row returns no error
HandleSaveEdit(u) ==
  /\ editingPost[u] # NULL
  /\ postRows' = UpdatePost(postRows, u, editingPost[u], Draft[u])
  /\ editingPost' = [editingPost EXCEPT ![u] = NULL]
  /\ postAlert' = [postAlert EXCEPT ![u] = "updated"]
  /\ UNCHANGED <<config, profileVars, feedVars, notifVars, homeVars, chatVars, authVars, socialVars,
               shownPosts>>

\* handleDeletePost(postId), "Delete" pressed: a delete that matches no row
\* returns no error
HandleDeletePost(u, p) ==
  /\ postRows' = DeletePost(postRows, u, p)
  /\ shownPosts' = [shownPosts EXCEPT ![u] = @ \ {p}]
  /\ postAlert' = [postAlert EXCEPT ![u] = "deleted"]
  /\ UNCHANGED <<config, profileVars, feedVars, notifVars, homeVars, chatVars, authVars, socialVars,
               editingPost>>

\* the home screens have loaded
FeedShown == feed = [u \in Users |-> Posts]

\* the home screen's posts as loaded from a table without likes
HomeOff ==
  /\ homePosts = ProcessedPosts({}, Viewer)
  /\ homeLikes = EmptyBag
  /\ likeAlert = FALSE

AppOff == ProfileOff /\ FeedShown /\ NotifOff /\ PostOff /\ HomeOff

(***************************************************************************)
(* The specifications.  Each follows one part of the program and holds the  *)
(* state of the others still.                                               *)
(***************************************************************************)
ChatOff ==
  /\ variant = 1
  /\ watched = {}
  /\ faults = 0
  /\ ChatEmpty

AuthOff ==
  /\ profiles = SetToBag({[id |-> u, username |-> "old"] : u \in Users})
  /\ libSession = 1
  /\ issued = 1
  /\ session = 1
  /\ loading = FALSE
  /\ getSess = [pc |-> "done", val |-> 1]
  /\ events = <<>>
  /\ ensures = {}

\* ChatSpec: the two users' chat screens against the database, the backend
\* free to fail message inserts; the screens' message lists are not followed.
ChatInit ==
  /\ variant \in {1, 2}
  /\ extraCols \in BOOLEAN
  /\ watched = {}
  /\ faults = MaxFaults
  /\ ChatEmpty
  /\ AuthOff
  /\ SocialStart
  /\ AppOff

ChatNext ==
  \E u \in Users :
    \/ \E rid \in Users \cup ConvIds \cup {NonUuidRoute} : OpenChat(u, rid)
    \/ CloseChat(u)
    \/ \E k \in Slots :
         \/ HandleSendTap(u, k)
         \/ SendCheck(u, k)
         \/ SendCreate(u, k)
         \/ \E e \in {"ok", "pgrst116", "other"} : SendInsert(u, k, e)
         \/ SendUpdate(u, k)
         \/ SendRetry(u, k)

ChatSpec == ChatInit /\ [][ChatNext]_vars

\* ScreenSpec: the same screens with u1's message list, channels and pending
\* fetches followed, against a backend that does not fail.
ScreenInit ==
  /\ variant \in {1, 2}
  /\ extraCols \in BOOLEAN
  /\ watched = {"u1"}
  /\ faults = 0
  /\ ChatEmpty
  /\ AuthOff
  /\ SocialStart
  /\ AppOff

ScreenNext ==
  \E u \in Users :
    \/ \E rid \in Users \cup ConvIds \cup {NonUuidRoute} : OpenChat(u, rid)
    \/ CloseChat(u)
    \/ HandleRefresh(u)
    \/ \E v \in fetches[u] : FetchApply(u, v)
    \/ \E d \in rt[u] : RealtimeDeliver(u, d)
    \/ \E k \in Slots :
         \/ HandleSendTap(u, k)
         \/ SendCheck(u, k)
         \/ SendCreate(u, k)
         \/ SendInsert(u, k, "ok")
         \/ SendUpdate(u, k)

ScreenSpec == ScreenInit /\ [][ScreenNext]_vars

\* MsgSpec: the two users' chat screens, any conversation's route and the debug
\* action, against a backend that does not fail; u2 already has a conversation
\* with a third profile
MsgInit ==
  /\ variant \in {1, 2}
  /\ extraCols \in BOOLEAN
  /\ watched = {}
  /\ faults = 0
  /\ conversations = {[id |-> NewConvId({}), p1 |-> "u2", p2 |-> Stranger, last |-> ""]}
  /\ messages = <<>>
  /\ route = [u \in Users |-> NoRoute]
  /\ list = [u \in Users |-> <<>>]
  /\ subs = [u \in Users |-> {}]
  /\ rt = [u \in Users |-> {}]
  /\ fetches = [u \in Users |-> {}]
  /\ send = [u \in Users |-> [k \in Slots |-> IdleTask]]
  /\ sending = [u \in Users |-> FALSE]
  /\ AuthOff
  /\ SocialStart
  /\ AppOff

MsgNext ==
  \E u \in Users :
    \/ \E rid \in Users \cup ConvIds \cup {NonUuidRoute} : OpenChat(u, rid)
    \/ \E rid \in ConvIds : OpenLink(u, rid)
    \/ CloseChat(u)
    \/ HandleFixMessages(u)
    \/ \E k \in Slots :
         \/ HandleSendTap(u, k)
         \/ SendCheck(u, k)
         \/ SendCreate(u, k)
         \/ SendInsert(u, k, "ok")
         \/ SendUpdate(u, k)

MsgSpec == MsgInit /\ [][MsgNext]_vars

\* AuthSpec: the AuthProvider from its mount on
AuthInit ==
  /\ extraCols = FALSE
  /\ ChatOff
  /\ AuthStart
  /\ SocialStart
  /\ AppOff

AuthNext ==
  \/ GetSessionResolve
  \/ InitializeAuthResume
  \/ SignIn
  \/ TokenRefresh
  \/ SignOut
  \/ AuthCallback
  \/ \E t \in ensures : EnsureCheck(t)
  \/ \E t \in ensures : EnsureInsert(t)

AuthSpec == AuthInit /\ [][AuthNext]_vars

SocialInit ==
  /\ extraCols \in BOOLEAN
  /\ ChatOff
  /\ AuthOff
  /\ SocialStart
  /\ AppOff

\* LikeSpec: both users on the home and comments screens
LikeNext ==
  \/ \E op \in BagToSet(likeOps) : LikeRequest(op)
  \/ \E u \in Users :
       \/ \E p \in Posts : HomeHandleLike(u, p)
       \/ \E k \in {c.id : c \in comments} : CommentsHandleLike(u, k)
       \/ FetchData(u)
       \/ FetchComments(u)
       \/ \E p \in Posts : HandleSubmit(u, p)

LikeSpec == SocialInit /\ [][LikeNext]_vars

\* FollowSpec: both users on the home, search and follow-request screens
FollowNext ==
  \E u \in Users :
    \/ SearchUsers(u)
    \/ HandleFollow(u)
    \/ \E v \in Users, accept \in BOOLEAN : HandleConnect(u, v, accept)
    \/ \E r \in followers : HandleAccept(u, r)
    \/ \E r \in followers : HandleReject(u, r)

FollowSpec == SocialInit /\ [][FollowNext]_vars

\* SocialSpec: both users on every screen that likes, comments or follows
SocialNext ==
  \/ LikeNext
  \/ FollowNext

SocialSpec == SocialInit /\ [][SocialNext]_vars

\* HomeSpec: the posts list of one home screen, loaded from a table in which
\* the user has liked any of the posts
HomeInit ==
  /\ extraCols \in BOOLEAN
  /\ ChatOff
  /\ AuthOff
  /\ comments = {}
  /\ \E S \in SUBSET PostIds :
       /\ likes = {[id |-> IF p = "p1" THEN 1 ELSE 2, user |-> Viewer, post |-> p,
                    comment |-> NULL] : p \in S}
       /\ notifications =
            IF "p2" \in S THEN <<Notification(PostOwner["p2"], Viewer, "like", "p2", NULL)>>
                          ELSE <<>>
       /\ homePosts = ProcessedPosts(likes, Viewer)
  /\ followers = {}
  /\ liked = [u \in Users |-> FALSE]
  /\ cliked = [u \in Users |-> {}]
  /\ following = [u \in Users |-> FALSE]
  /\ likeOps = EmptyBag
  /\ ProfileOff
  /\ feed = [u \in Users |-> {}]
  /\ NotifOff
  /\ PostOff
  /\ homeLikes = EmptyBag
  /\ likeAlert = FALSE

HomeNext ==
  \/ FetchData(Viewer)
  \/ \E p \in PostIds : HandleLike(p)
  \/ \E op \in BagToSet(homeLikes) : HandleLikeRequest(op)
  \/ DismissLikeAlert

HomeSpec == HomeInit /\ [][HomeNext]_vars

\* FeedSpec: both users' home screens from their mount on, with the search and
\* follow-request screens
FeedInit ==
  /\ extraCols \in BOOLEAN
  /\ ChatOff
  /\ AuthOff
  /\ SocialStart
  /\ ProfileOff
  /\ feed = [u \in Users |-> {}]
  /\ NotifOff
  /\ PostOff
  /\ HomeOff

FeedNext ==
  \E u \in Users :
    \/ FetchData(u)
    \/ SearchUsers(u)
    \/ HandleFollow(u)
    \/ \E v \in Users, accept \in BOOLEAN : HandleConnect(u, v, accept)
    \/ \E r \in followers : HandleAccept(u, r)
    \/ \E r \in followers : HandleReject(u, r)

FeedSpec == FeedInit /\ [][FeedNext]_vars

\* DbSpec: any inserts and updates of authenticated clients that fire create_notification
DbNext ==
  \E u \in Users :
    \/ \E p \in Posts \cup {NULL}, k \in {c.id : c \in comments} \cup {NULL} :
         InsertLike(u, p, k)
    \/ \E p \in Posts : InsertComment(u, p)
    \/ \E st \in FollowStatuses : InsertFollower(u, st)
    \/ \E r \in followers, st \in FollowStatuses : UpdateFollower(u, r, st)

DbSpec == SocialInit /\ [][DbNext]_vars

\* ProfileSpec: the two users on their edit-profile screens and a new account
\* on the sign-up screen
ProfileInit ==
  /\ extraCols = FALSE
  /\ ChatOff
  /\ AuthOff
  /\ SocialStart
  /\ ProfileOff
  /\ FeedShown
  /\ NotifOff
  /\ PostOff
  /\ HomeOff

ProfileNext ==
  \/ \E u \in Users, name \in Names : HandleSaveCheck(u, name)
  \/ \E u \in Users : HandleSaveUpdate(u)
  \/ \E name \in Names : HandleSignupCheck(name)
  \/ \E withSession \in BOOLEAN : SignUp(withSession)

ProfileSpec == ProfileInit /\ [][ProfileNext]_vars

\* NotifSpec: one device of Viewer with its stack of Home screens and the
\* Notifications screen, over a notifications table the triggers have filled
NotifInit ==
  /\ extraCols = FALSE
  /\ ChatOff
  /\ AuthOff
  /\ comments = {}
  /\ likes = {}
  /\ followers = {}
  /\ notifications \in NotifTables
  /\ liked = [u \in Users |-> FALSE]
  /\ cliked = [u \in Users |-> {}]
  /\ following = [u \in Users |-> FALSE]
  /\ likeOps = EmptyBag
  /\ ProfileOff
  /\ FeedShown
  /\ NotifOff
  /\ PostOff
  /\ HomeOff

NotifNext ==
  \/ \E h \in 1..MaxHomes : MountHome(h)
  \/ \E h \in homes : UnmountHome(h)
  \/ OpenNotifications
  \/ \E f \in nfetch : FetchNotificationsSelect(f)
  \/ \E f \in nfetch : FetchNotificationsSet(f)
  \/ NotificationsHandleRefresh
  \/ \E m \in nmark : MarkAllSelect(m)
  \/ \E m \in nmark, batch \in BOOLEAN : MarkAllUpdate(m, batch)
  \/ \E m \in nmark : MarkAllFinish(m)
  \/ HandleMarkAll
  \/ ForcedUpdate
  \/ CloseNotifications

NotifSpec == NotifInit /\ [][NotifNext]_vars

\* PostSpec: the two users on their profile screens
PostInit ==
  /\ extraCols = FALSE
  /\ ChatOff
  /\ AuthOff
  /\ SocialStart
  /\ ProfileOff
  /\ FeedShown
  /\ NotifOff
  /\ PostOff
  /\ HomeOff

PostNext ==
  \E u \in Users :
    \/ FetchProfile(u)
    \/ \E p \in PostIds : HandleEditPost(u, p)
    \/ HandleSaveEdit(u)
    \/ \E p \in PostIds : HandleDeletePost(u, p)

PostSpec == PostInit /\ [][PostNext]_vars

\* ViewSpec: the chat screen opened by conversation id on conversations that
\* hold a message: one between u2 and a third user, one between u1 and u2
ViewConvs ==
  {[id |-> ConvNames[1], p1 |-> "u2", p2 |-> Stranger, last |-> "hi"],
   [id |-> ConvNames[2], p1 |-> "u1", p2 |-> "u2", last |-> "hi"]}

ViewInit ==
  /\ variant \in {1, 2}
  /\ extraCols \in BOOLEAN
  /\ watched = Users
  /\ faults = 0
  /\ conversations = ViewConvs
  /\ messages = [i \in 1..2 |-> [conv |-> ConvNames[i], sender |-> "u2", content |-> "hi",
                                 received |-> FALSE, updated |-> FALSE]]
  /\ route = [u \in Users |-> NoRoute]
  /\ list = [u \in Users |-> <<>>]
  /\ subs = [u \in Users |-> {}]
  /\ rt = [u \in Users |-> {}]
  /\ fetches = [u \in Users |-> {}]
  /\ send = [u \in Users |-> [k \in Slots |-> IdleTask]]
  /\ sending = [u \in Users |-> FALSE]
  /\ AuthOff
  /\ SocialStart
  /\ AppOff

ViewNext ==
  \E u \in Users :
    \/ \E rid \in ConvIds : OpenLink(u, rid)
    \/ CloseChat(u)
    \/ HandleRefresh(u)
    \/ \E v \in fetches[u] : FetchApply(u, v)

ViewSpec == ViewInit /\ [][ViewNext]_vars

(***************************************************************************)
(* Properties of the chat screen.                                          *)
(***************************************************************************)

\* C1: at most one conversation row exists per unordered pair of users:
\* never both (A,B) and (B,A), nor two rows for the same pair.
C1_OneConversationPerPair ==
  \A c, d \in conversations : {c.p1, c.p2} = {d.p1, d.p2} => c = d

\* C2: the chat screen's local message list never contains two entries with
\* the same message id.
C2_NoDuplicateMessageIds ==
  \A u \in Users : \A i, j \in 1..Len(list[u]) : list[u][i] = list[u][j] => i = j

\* C3: a chat screen holds at most one realtime subscription, and it is the
\* one for the id currently shown; id changes and unmounts remove the old one.
C3_OneSubscriptionForShownId ==
  \A u \in Users :
    /\ Cardinality(subs[u]) <= 1
    /\ \A s \in subs[u] : route[u] # NoRoute /\ s.conv = route[u]

\* C4: a message sent from a chat screen opened with a counterpart's user id
\* goes to a conversation of exactly the two users (reused if one exists in
\* either order, else exactly one is created) and the send succeeds.
C4_SendToUserIdSucceeds ==
  \A u \in Users : \A k \in Slots :
    LET t == send[u][k] IN
    t.rid \in Users =>
      /\ t.out # "alert"
      /\ t.pc \in {"insert", "update"} =>
           /\ \E c \in conversations : c.id = t.conv /\ {c.p1, c.p2} = {u, t.rid}
           /\ Cardinality(PairConvs(conversations, u, t.rid)) = 1

\* C5: the send path retries once: one user-initiated send re-invokes
\* handleSend at most once, however often the PGRST116 error recurs.
C5_RetriesAtMostOnce ==
  \A u \in Users : \A k \in Slots : send[u][k].retries <= 1

\* the content of the most recently inserted message of conversation cid
LatestContent(cid) ==
  LET ids == {i \in 1..Len(messages) : messages[i].conv = cid}
  IN messages[CHOOSE i \in ids : \A j \in ids : j <= i].content

\* C7: once all sends have finished, none of them having failed, every
\* conversation's last_message is the content of its most recently inserted
\* message.
C7_LastMessageAccurate ==
  (ActiveSends = {} /\ faults = MaxFaults) =>
    \A c \in conversations :
      (\E i \in 1..Len(messages) : messages[i].conv = c.id) => c.last = LatestContent(c.id)

\* C11: messages are append-only: no step of a send, a refresh, a realtime
\* delivery or the 'Fix Message Permissions' action deletes a message row or
\* changes an existing one; the stored messages only grow.
C11_MessagesAppendOnly ==
  [][/\ Len(messages') >= Len(messages)
     /\ \A i \in 1..Len(messages) : messages'[i] = messages[i]]_vars

\* C12: every stored message references an existing conversation and its
\* sender is one of that conversation's two participants.
C12_MessagesOfParticipants ==
  \A i \in 1..Len(messages) :
    \E c \in conversations :
      c.id = messages[i].conv /\ messages[i].sender \in {c.p1, c.p2}

\* a user has sent from a screen opened on a conversation of two other
\* profiles and was turned away, while a message of a participant is stored
C12_OutsiderTurnedAway ==
  /\ messages # <<>>
  /\ \E u \in Users, k \in Slots : \E c \in conversations :
       /\ send[u][k].rid = c.id
       /\ u \notin {c.p1, c.p2}
       /\ send[u][k].out = "alert"

(***************************************************************************)
(* Properties of the AuthProvider.                                          *)
(***************************************************************************)

\* C6: once initializeAuth and every pending onAuthStateChange callback have
\* run, the session the AuthProvider exposes is the session of the most
\* recent authentication change, the one the auth library holds.
C6_SessionIsLatest ==
  (getSess.pc = "done" /\ events = <<>> /\ ensures = {}) => session = libSession

\* C13: when a successful signIn returns (its ensureUserProfileExists call has
\* returned), a profile row whose id is the user's authentication id exists.
C13_ProfileAfterSignIn ==
  [][(\E t \in ensures :
        /\ t.origin = "signIn"
        /\ ~\E r \in ensures' : r.origin = t.origin /\ r.n = t.n)
     => \E r \in BagToSet(profiles') : r.id = AuthUser]_vars

(***************************************************************************)
(* Properties of usernames.                                                 *)
(***************************************************************************)

\* C14: no two profiles share a username, whatever the interleaving of
\* sign-ups and edit-profile saves that passed the 'already taken' check.
C14_UsernamesUnique ==
  \A u, v \in Accounts :
    (u # v /\ usernames[u] # NULL /\ usernames[v] # NULL) => usernames[u] # usernames[v]

\* two users passed the check for the same free name; one has written it and
\* the other's update was refused
C14_SecondSaveRefused ==
  \E u, v \in Users :
    /\ u # v
    /\ usernames[u] = "c"
    /\ saves[u].alert = "Success"
    /\ saves[v].alert = "Error"

(***************************************************************************)
(* Properties of likes, follow edges and notifications.                     *)
(***************************************************************************)

\* C8: every like row targets exactly one of post or comment, and there is at
\* most one like row per (user, post) and per (user, comment), whatever taps
\* were issued from stale screen state.
C8_LikesWellFormed ==
  /\ \A r \in likes : (r.post = NULL) # (r.comment = NULL)
  /\ \A r, s \in likes :
       (r.user = s.user /\ r.post = s.post /\ r.comment = s.comment) => r = s

\* a like of a post whose row exists is in flight again from stale is_liked,
\* next to a like of a comment
C8_StaleTapOnLikedPost ==
  /\ \E op \in BagToSet(likeOps) : \E r \in likes :
       ~op.isLiked /\ op.post # NULL /\ r.user = op.user /\ r.post = op.post
  /\ \E s \in likes : s.comment # NULL

\* C9: there is at most one follow edge per ordered pair (follower, following)
\* and every edge's status is one of pending, accepted, rejected.
C9_FollowEdgesWellFormed ==
  /\ \A r, s \in followers :
       (r.follower = s.follower /\ r.following = s.following) => r = s
  /\ \A r \in followers : r.status \in {"pending", "accepted", "rejected"}

\* an accepted edge and a pending edge, one of them made on the home screen
\* while the search screen of its follower still shows Follow
C9_EdgesBothWaysStaleSearch ==
  /\ \E r, s \in followers : r.status = "accepted" /\ s.status = "pending"
  /\ \E u \in Users : ~following[u] /\ \E r \in followers : r.follower = u

\* C15: a post is in a viewer's home feed only if the viewer is its author or
\* holds an accepted follow edge to its author.
C15_FeedGatedByFollow ==
  \A u \in Users : \A p \in feed[u] :
    \/ PostOwner[p] = u
    \/ \E r \in followers :
         r.follower = u /\ r.following = PostOwner[p] /\ r.status = "accepted"

\* C10: a notification of type like or comment has a post target, and one of
\* type follow or follow_request has neither a post nor a comment target.
C10_NotificationsWellFormed ==
  \A i \in 1..Len(notifications) :
    LET n == notifications[i] IN
    /\ n.type \in {"like", "comment"} => n.post # NULL
    /\ n.type \in {"follow", "follow_request"} => n.post = NULL /\ n.comment = NULL
    /\ n.type \in {"like", "comment", "follow", "follow_request"}

\* the trigger has fired for a like of a post, for a follow edge and, adding
\* no row, for a like of a comment
C10_LikeAndFollowNotified ==
  /\ \E i, j \in 1..Len(notifications) :
       notifications[i].type = "like" /\ notifications[j].type \in {"follow", "follow_request"}
  /\ \E r \in likes : r.comment # NULL

(***************************************************************************)
(* Properties of the Home screens' badge callback and of the Notifications  *)
(* screen.                                                                  *)
(***************************************************************************)

\* C16: whenever a Home screen is mounted, global.updateNotificationBadges
\* holds the callback of a mounted Home screen, for any order of mounts and
\* unmounts.
C16_BadgeSlotOfMountedHome ==
  homes # {} => badgeSlot \in homes

\* C17: the actor shown with an entry of the notification list is the user_id
\* of its notifications row (who liked, commented or followed), never the
\* recipient.
C17_ActorIsRowUser ==
  \A k \in 1..Len(nlist) :
    /\ nlist[k].actor = notifications[nlist[k].id].user
    /\ nlist[k].actor # notifications[nlist[k].id].recipient

\* C18: a handleSaveEdit or handleDeletePost step of user u changes or removes
\* only rows of posts whose user_id is u, so no calls of other users change a
\* post's content or existence.
C18_OnlyAuthorChangesPost ==
  [][\A u \in Users :
       (HandleSaveEdit(u) \/ \E p \in PostIds : HandleDeletePost(u, p))
         => /\ \A r \in postRows \ postRows' : r.user = u
            /\ \A r \in postRows' \ postRows : r.user = u]_vars

\* u1 has edited its own post; u2 was told its delete succeeded, yet both
\* posts are still there: the delete was aimed at u1's post
C18_ForeignDeleteRefused ==
  /\ postAlert["u2"] = "deleted"
  /\ {r.id : r \in postRows} = PostIds
  /\ \E r \in postRows : r.id = "p1" /\ r.content = Draft["u1"]

\* C19: once fetchNotifications and markAllAsRead of the Notifications
\* screen have both returned, in whichever order, the list shows every
\* notification the recipient has.
C19_ListHoldsFetched ==
  (nopen /\ nfetch = {} /\ nmark = {})
    => \A i \in 1..Len(notifications) :
         notifications[i].recipient = Viewer
           => \E k \in 1..Len(nlist) : nlist[k].id = i

(***************************************************************************)
(* The chat screen's list under realtime deliveries and fetches in flight.  *)
(***************************************************************************)

\* C20: a fetchMessages call that completes does not remove from the list a
\* message of the shown conversation that is already in it (put there by a
\* realtime delivery), so every message inserted while the screen is open
\* and subscribed comes to stay in the list.
C20_FetchKeepsDelivered ==
  [][\A u \in Users :
       (\E v \in fetches[u] : FetchApply(u, v))
         => \A i \in 1..Len(list[u]) :
              messages[list[u][i]].conv = route[u]
                => \E j \in 1..Len(list'[u]) : list'[u][j] = list[u][i]]_vars

(***************************************************************************)
(* Further properties of likes, notifications, follow edges, the chat       *)
(* screen and the AuthProvider.                                             *)
(***************************************************************************)

\* C21: a like of a comment written by another user succeeds: when the
\* comments screen's insert runs (the database taking the columns it names)
\* and no such like exists yet, the like row is stored and a 'like'
\* notification to the comment's author carries the comment id.
C21_CommentLikeStored ==
  [][\A op \in BagToSet(likeOps) :
       (/\ extraCols
        /\ ~op.isLiked
        /\ op.comment # NULL
        /\ \E c \in comments : c.id = op.comment /\ c.user # op.user
        /\ ~\E r \in likes : r.user = op.user /\ r.comment = op.comment
        /\ LikeRequest(op))
         => /\ \E r \in likes' : r.user = op.user /\ r.comment = op.comment
            /\ \E i \in 1..Len(notifications') :
                 /\ notifications'[i].type = "like"
                 /\ notifications'[i].user = op.user
                 /\ notifications'[i].comment = op.comment]_vars

\* C22: once markAllAsRead has made its updates (the batch, or the update of
\* each row), every notification of the current user that its select found
\* unread is read, and the notifications of other recipients keep their
\* read flag.
C22_UnreadAtStartMarked ==
  /\ \A m \in nmark :
       m.pc = "finish" => \A k \in 1..Len(m.unread) : notifications[m.unread[k]].read
  /\ \A i \in 1..Len(notifications) :
       notifications[i].recipient # Viewer => ~notifications[i].read

\* markAllAsRead has updated the rows it found while the table holds a
\* notification of another recipient
C22_MarkedNextToForeignRow ==
  /\ \E m \in nmark : m.pc = "finish" /\ m.unread # <<>>
  /\ \E i \in 1..Len(notifications) : notifications[i].recipient # Viewer

\* C23: no operation of the follower alone (Connect, Follow from search,
\* accept-and-follow-back) creates a follow edge of that follower that is
\* already accepted or turns one of its edges to accepted.
C23_FollowerCannotAccept ==
  [][\A u \in Users :
       (HandleFollow(u) \/ \E v \in Users, accept \in BOOLEAN : HandleConnect(u, v, accept))
         => \A r \in followers' :
              (r.follower = u /\ r.status = "accepted") => r \in followers]_vars

\* C24: fetchMessages fills the list with a conversation's messages only for
\* its participants, and a fetchMessages call of any other user on the
\* conversation ends with the 'not authorized' error.
C24_OnlyParticipantsRead ==
  \A u \in Users :
    /\ \A i \in 1..Len(list[u]) :
         \E c \in conversations :
           c.id = messages[list[u][i]].conv /\ (u = c.p1 \/ u = c.p2)
    /\ \A c \in conversations :
         (c.id = route[u] /\ u # c.p1 /\ u # c.p2)
           => \A f \in fetches[u] : f.out = "unauthorized"

\* C25: from the start of a handleSend of the mounted chat screen until it
\* has finished, its delayed retry included, the send control is disabled
\* (sending is set), so no second handleSend can start beside it.
C25_SendControlHeld ==
  \A u \in Users : \A k \in Slots :
    (send[u][k].pc # "idle" /\ send[u][k].alive) => sending[u]

\* C26: whatever the interleaving of ensureUserProfileExists calls for the
\* user, there is at most one profile row for the user, and no step removes
\* or changes a profile row that exists.
C26_OneProfileKept ==
  /\ [](BagCardinality(profiles) <= 1)
  /\ [][\A r \in BagToSet(profiles) : CopiesIn(r, profiles') >= CopiesIn(r, profiles)]_vars

\* two ensureUserProfileExists calls have both found no profile and are both
\* about to insert one
C26_TwoInsertsPending ==
  /\ profiles = EmptyBag
  /\ \E t, r \in ensures : t # r /\ t.pc = "insert" /\ r.pc = "insert"

C28_LikeChangesOnePost ==
  [][\A op \in BagToSet(homeLikes) :
       HandleLikeRequest(op) =>
         IF LikeRefused(op)
           THEN homePosts' = homePosts /\ likeAlert'
           ELSE /\ homePosts'[op.post].is_liked = ~homePosts[op.post].is_liked
                /\ homePosts'[op.post].likes_count =
                     homePosts[op.post].likes_count +
                       (IF homePosts'[op.post].is_liked THEN 1 ELSE -1)
                /\ \A q \in PostIds \ {op.post} : homePosts'[q] = homePosts[q]]_vars

=============================================================================
